---- MODULE Spec2Model ----
(***************************************************************************)
(* A model of Auto.py, the GST & Books auto-fill tool: the header          *)
(* normaliser (clean_column_name), the column mapper (map_columns), the    *)
(* value normaliser (preprocess_df / normalize_date) and the script body   *)
(* that reads the selected sheets, combines them and offers the download.  *)
(*                                                                         *)
(* Text (header labels, cell values) is a sequence of one-character        *)
(* strings, so that trimming, regular-expression substitution, upper-      *)
(* casing and parsing are computed character by character.                *)
(***************************************************************************)
EXTENDS Integers, Sequences, FiniteSets, TLC

VARIABLES
    pc,                  \* position of the run in the script body
    books_file,          \* the Books upload, or None
    gst_file,            \* the GST upload, or None
    kind,                \* which file's section is running: "books" / "gst" / "none"
    todo,                \* selected sheets of the current file not yet read
    df,                  \* the Source Table read last (line 149 / 162)
    mapped_df,           \* the loop's mapped_df (lines 150-151 / 163-164)
    combined_books_df,   \* combined table of the Books section, or Undefined
    combined_gst_df,     \* combined table of the GST section, or Undefined
    src_rows,            \* rows of the Source Tables read so far, per kind
    download,            \* what the run offers for download
    error,               \* the exception that ended the run, or "none"
    h1, h2,              \* two header labels given to clean_column_name
    key1, key2,          \* their normalisation keys
    val,                 \* an INVOICE DATE cell given to normalize_date
    date_out             \* the result of normalize_date and the branch taken

vars == << pc, books_file, gst_file, kind, todo, df, mapped_df,
           combined_books_df, combined_gst_df, src_rows, download, error,
           h1, h2, key1, key2, val, date_out >>

(***************************************************************************)
(* Characters and text                                                     *)
(***************************************************************************)
LowerLetters == <<"a","b","c","d","e","f","g","h","i","j","k","l","m",
                  "n","o","p","q","r","s","t","u","v","w","x","y","z">>
UpperLetters == <<"A","B","C","D","E","F","G","H","I","J","K","L","M",
                  "N","O","P","Q","R","S","T","U","V","W","X","Y","Z">>
DigitChars == <<"0","1","2","3","4","5","6","7","8","9">>

Range(s) == { s[i] : i \in DOMAIN s }

LowerSet == Range(LowerLetters)
UpperSet == Range(UpperLetters)
DigitSet == Range(DigitChars)
IsLower(c) == c \in LowerSet
IsUpper(c) == c \in UpperSet
IsDigit(c) == c \in DigitSet
\* Python's \s and str.strip(): the whitespace characters
IsSpace(c) == c \in {" ", "\t", "\n", "\r"}
\* Python's \w: letters, digits and the underscore
IsWord(c) == IsLower(c) \/ IsUpper(c) \/ IsDigit(c) \/ c = "_"

IndexOf(c, s) == CHOOSE i \in DOMAIN s : s[i] = c
UpperOf == [c \in LowerSet |-> UpperLetters[IndexOf(c, LowerLetters)]]
DigitValOf == [c \in DigitSet |-> IndexOf(c, DigitChars) - 1]
UpperChar(c) == IF IsLower(c) THEN UpperOf[c] ELSE c
DigitVal(c) == DigitValOf[c]

\* str.upper()
Upper(s) == [i \in DOMAIN s |-> UpperChar(s[i])]

\* str.strip(): the text between its first and last non-whitespace character
Strip(s) ==
    LET idx == { i \in DOMAIN s : ~IsSpace(s[i]) }
    IN  IF idx = {} THEN <<>>
        ELSE SubSeq(s, CHOOSE i \in idx : \A j \in idx : i <= j,
                       CHOOSE i \in idx : \A j \in idx : j <= i)

\* re.sub(r'\s+', ' ', s): every maximal run of whitespace becomes one space
\* (its first character becomes the space, the others of the run go)
CollapseSpaces(s) ==
    LET marked == [i \in DOMAIN s |->
                     [ch |-> IF IsSpace(s[i]) THEN " " ELSE s[i],
                      keep |-> ~(IsSpace(s[i]) /\ i > 1 /\ IsSpace(s[i - 1]))]]
        kept == SelectSeq(marked, LAMBDA x : x.keep)
    IN  [i \in DOMAIN kept |-> kept[i].ch]

\* re.sub(r'\W', '', s): every character that is not a word character goes
RemoveNonWord(s) == SelectSeq(s, IsWord)

(***************************************************************************)
(* Header Normalizer                                                       *)
(***************************************************************************)
clean_column_name(col) == Upper(RemoveNonWord(CollapseSpaces(Strip(col))))

(***************************************************************************)
(* Template columns and the two alias tables.  A Python dict keeps its     *)
(* insertion order, so a table is the sequence of its items.               *)
(***************************************************************************)
template_columns ==
    << "GSTIN/UIN OF RECIPIENT", "RECEIVER NAME", "INVOICE NO", "INVOICE DATE",
       "INVOICE VALUE", "PLACE OF SUPPLY", "INVOICE TYPE", "TAXABLE VALUE",
       "INTEGRATED TAX", "CENTRAL TAX", "STATE/UT TAX", "IRN NUMBER" >>

\* an alias table with, beside each alias list, the keys of the aliases
\* (clean_column_name(col) of line 74, which depends on the alias alone)
WithKeys(items) ==
    [i \in DOMAIN items |->
        [field |-> items[i].field, aliases |-> items[i].aliases,
         keys |-> [j \in DOMAIN items[i].aliases |->
                      clean_column_name(items[i].aliases[j])]]]

books_items ==
  << [field |-> "GSTIN/UIN OF RECIPIENT", aliases |-> <<
        <<"O","r","i","g","i","n","a","l"," ","C","u","s","t","o","m","e","r"," ","B","i","l","l","i","n","g"," ","G","S","T","I","N">>,
        <<"C","u","s","t","o","m","e","r"," ","G","S","T","I","N">>,
        <<"G","S","T","I","N">>,
        <<"C","u","s","t","o","m","e","r"," ","B","i","l","l","i","n","g"," ","G","S","T","I","N">>
     >>],
     [field |-> "RECEIVER NAME", aliases |-> <<
        <<"C","u","s","t","o","m","e","r"," ","N","a","m","e">>,
        <<"R","e","c","e","i","v","e","r"," ","N","a","m","e">>,
        <<"B","i","l","l","e","d"," ","T","o"," ","N","a","m","e">>,
        <<"C","u","s","t","o","m","e","r"," ","B","i","l","l","i","n","g"," ","N","a","m","e">>
     >>],
     [field |-> "INVOICE NO", aliases |-> <<
        <<"O","r","i","g","i","n","a","l"," ","I","n","v","o","i","c","e"," ","N","u","m","b","e","r"," ","(","I","n"," ","c","a","s","e"," ","o","f"," ","a","m","e","n","d","m","e","n","t",")">>,
        <<"I","n","v","o","i","c","e"," ","N","u","m","b","e","r">>,
        <<"B","i","l","l"," ","N","o">>,
        <<"V","o","u","c","h","e","r"," ","N","u","m","b","e","r"," ","o","f"," ","L","i","n","k","e","d"," ","A","d","v","a","n","c","e"," ","R","e","c","e","i","p","t">>,
        <<"D","o","c","u","m","e","n","t"," ","N","u","m","b","e","r">>
     >>],
     [field |-> "INVOICE DATE", aliases |-> <<
        <<"O","r","i","g","i","n","a","l"," ","I","n","v","o","i","c","e"," ","D","a","t","e"," ","(","I","n"," ","c","a","s","e"," ","o","f"," ","a","m","e","n","d","m","e","n","t",")">>,
        <<"I","n","v","o","i","c","e"," ","D","a","t","e">>,
        <<"B","i","l","l"," ","D","a","t","e">>,
        <<"D","a","t","e"," ","o","f"," ","L","i","n","k","e","d"," ","A","d","v","a","n","c","e"," ","R","e","c","e","i","p","t">>,
        <<"D","o","c","u","m","e","n","t"," ","D","a","t","e">>
     >>],
     [field |-> "INVOICE VALUE", aliases |-> <<
        <<"I","n","v","o","i","c","e"," ","V","a","l","u","e">>,
        <<"T","o","t","a","l"," ","A","m","o","u","n","t">>,
        <<"I","n","v","o","i","c","e"," ","A","m","t">>
     >>],
     [field |-> "PLACE OF SUPPLY", aliases |-> <<
        <<"P","l","a","c","e"," ","o","f"," ","S","u","p","p","l","y">>,
        <<"S","t","a","t","e">>,
        <<"S","t","a","t","e"," ","P","l","a","c","e"," ","o","f"," ","S","u","p","p","l","y">>
     >>],
     [field |-> "INVOICE TYPE", aliases |-> <<
        <<"T","y","p","e"," ","o","f"," ","E","x","p","o","r","t">>
     >>],
     [field |-> "TAXABLE VALUE", aliases |-> <<
        <<"I","t","e","m"," ","T","a","x","a","b","l","e"," ","V","a","l","u","e">>,
        <<"T","a","x","a","b","l","e"," ","A","m","o","u","n","t">>
     >>],
     [field |-> "INTEGRATED TAX", aliases |-> <<
        <<"I","G","S","T"," ","A","m","o","u","n","t">>,
        <<"I","n","t","e","g","r","a","t","e","d"," ","T","a","x">>,
        <<"I","G","S","T"," ","R","a","t","e">>
     >>],
     [field |-> "CENTRAL TAX", aliases |-> <<
        <<"C","G","S","T"," ","A","m","o","u","n","t">>,
        <<"C","e","n","t","r","a","l"," ","T","a","x">>,
        <<"C","G","S","T"," ","R","a","t","e">>
     >>],
     [field |-> "STATE/UT TAX", aliases |-> <<
        <<"S","G","S","T"," ","A","m","o","u","n","t">>,
        <<"S","t","a","t","e","/","U","T"," ","T","a","x">>,
        <<"S","G","S","T"," ","R","a","t","e">>
     >>],
     [field |-> "IRN NUMBER", aliases |-> <<
        <<"I","R","N"," ","N","u","m","b","e","r">>,
        <<"I","R","N">>
     >>] >>

gst_items ==
  << [field |-> "GSTIN/UIN OF RECIPIENT", aliases |-> <<
        <<"G","S","T","I","N","/","U","I","N"," ","o","f"," ","R","e","c","i","p","i","e","n","t">>
     >>],
     [field |-> "RECEIVER NAME", aliases |-> <<
        <<"R","e","c","e","i","v","e","r"," ","N","a","m","e">>
     >>],
     [field |-> "INVOICE NO", aliases |-> <<
        <<"I","n","v","o","i","c","e"," ","n","u","m","b","e","r">>,
        <<"I","n","v","o","i","c","e"," ","N","u","m","b","e","r">>,
        <<"N","o","t","e"," ","N","u","m","b","e","r">>
     >>],
     [field |-> "INVOICE DATE", aliases |-> <<
        <<"I","n","v","o","i","c","e"," ","d","a","t","e">>,
        <<"I","n","v","o","i","c","e"," ","D","a","t","e">>,
        <<"N","o","t","e"," ","D","a","t","e">>
     >>],
     [field |-> "INVOICE VALUE", aliases |-> <<
        <<"I","n","v","o","i","c","e"," ","v","a","l","u","e">>,
        <<"I","n","v","o","i","c","e"," ","V","a","l","u","e">>,
        <<"N","o","t","e"," ","v","a","l","u","e">>
     >>],
     [field |-> "PLACE OF SUPPLY", aliases |-> <<
        <<"P","l","a","c","e"," ","o","f"," ","S","u","p","p","l","y">>
     >>],
     [field |-> "INVOICE TYPE", aliases |-> <<
        <<"I","n","v","o","i","c","e"," ","T","y","p","e">>,
        <<"N","o","t","e"," ","S","u","p","p","l","y"," ","T","y","p","e">>
     >>],
     [field |-> "TAXABLE VALUE", aliases |-> <<
        <<"T","a","x","a","b","l","e"," ","V","a","l","u","e">>
     >>],
     [field |-> "INTEGRATED TAX", aliases |-> <<
        <<"I","n","t","e","g","r","a","t","e","d"," ","T","a","x">>
     >>],
     [field |-> "CENTRAL TAX", aliases |-> <<
        <<"C","e","n","t","r","a","l"," ","T","a","x">>
     >>],
     [field |-> "STATE/UT TAX", aliases |-> <<
        <<"S","t","a","t","e","/","U","T"," ","T","a","x">>
     >>],
     [field |-> "IRN NUMBER", aliases |-> <<
        <<"I","R","N">>
     >>] >>

books_column_map == WithKeys(books_items)
gst_column_map == WithKeys(gst_items)

(***************************************************************************)
(* Cells and tables.  A cell is a text, the missing marker NaN, or a       *)
(* number n / 10^e.  All cells share one record shape.                     *)
(***************************************************************************)
StrCell(s) == [t |-> "str", s |-> s, n |-> 0, e |-> 0]
NaN == [t |-> "nan", s |-> <<>>, n |-> 0, e |-> 0]
RECURSIVE NumCell(_, _)
NumCell(n, e) ==
    IF e > 0 /\ n % 10 = 0 THEN NumCell(n \div 10, e - 1)
    ELSE [t |-> "num", s |-> <<>>, n |-> n, e |-> e]

\* the value of Op at x, with x evaluated first: one round of a loop passes a
\* computed table to the next, not the expression that computes it
Then(x, Op(_)) == CHOOSE r \in { Op(v) : v \in {x} } : TRUE

EmptyText == <<>>
Repeat(c, n) == [i \in 1..n |-> c]
Contains(seq, x) == \E i \in DOMAIN seq : seq[i] = x

\* pd.DataFrame(): a table created without its columns
NewFrameWithoutColumns(cols) ==
    [columns |-> <<>>, n |-> 0, data |-> [c \in {} |-> <<>>]]

\* pd.DataFrame(columns=cols): the columns, no rows
NewFrame(cols) ==
    [columns |-> cols, n |-> 0, data |-> [c \in Range(cols) |-> <<>>]]

\* frame[key] = data, for a frame that has len(data) = frame.n rows
PutColumn(frame, key, cells) ==
    [columns |-> IF Contains(frame.columns, key) THEN frame.columns
                 ELSE Append(frame.columns, key),
     n |-> frame.n,
     data |-> [c \in Range(frame.columns) \cup {key} |->
                  IF c = key THEN cells ELSE frame.data[c]]]

\* frame[key] = scalar: the scalar is broadcast over the frame's index, which
\* for a frame that has no row yet gives a column of no cell
SetItemScalar(frame, key, c) == PutColumn(frame, key, Repeat(c, frame.n))

\* DataFrame._ensure_valid_index: a frame without rows that is given a
\* non-empty column takes that column's index, and the columns it already
\* has are filled with NaN over it
EnsureValidIndex(frame, m) ==
    IF frame.n = 0 /\ m > 0
    THEN [columns |-> frame.columns, n |-> m,
          data |-> [c \in Range(frame.columns) |-> Repeat(NaN, m)]]
    ELSE frame

\* frame[key] = series (a column of a table with a 0..m-1 index): the frame's
\* index is made valid, then the series is aligned on it
SetItemSeries(frame, key, series) ==
    LET f == EnsureValidIndex(frame, Len(series))
    IN  PutColumn(f, key,
            [i \in 1..f.n |-> IF i <= Len(series) THEN series[i] ELSE NaN])

(***************************************************************************)
(* Column Mapper                                                           *)
(***************************************************************************)
\* df_cols_clean = {clean_column_name(col): col for col in df.columns}: the
\* keys; for a key given by several columns the dict keeps the last one
CleanKeys(src) == { clean_column_name(src.columns[i]) : i \in DOMAIN src.columns }
ColumnOfKey(src, k) ==
    CHOOSE i \in DOMAIN src.columns :
        /\ clean_column_name(src.columns[i]) = k
        /\ \A j \in DOMAIN src.columns :
              clean_column_name(src.columns[j]) = k => j <= i

\* the inner loop without its break: the last alias that matches wins
LastAlias(possible_keys, keys) ==
    LET hits == { j \in DOMAIN possible_keys : possible_keys[j] \in keys }
    IN  IF hits = {} THEN 0
        ELSE CHOOSE j \in hits : \A k \in hits : j >= k

\* the inner loop of map_columns: the index of the first alias, in list
\* order, whose key is a key of the table; 0 when the loop ends unmapped
FirstAlias(possible_keys, keys) ==
    LET hits == { j \in DOMAIN possible_keys : possible_keys[j] \in keys }
    IN  IF hits = {} THEN 0
        ELSE CHOOSE j \in hits : \A k \in hits : j <= k

\* one round of the outer loop of map_columns
MapField(frame, src, keys, item) ==
    LET j == FirstAlias(item.keys, keys)
    IN  IF j # 0
        THEN SetItemSeries(frame, item.field,
                 src.data[ColumnOfKey(src, item.keys[j])])
        ELSE SetItemScalar(frame, item.field, StrCell(EmptyText))

RECURSIVE MapFrom(_, _, _, _, _)
MapFrom(frame, src, keys, column_map, i) ==
    IF i > Len(column_map) THEN frame
    ELSE Then(MapField(frame, src, keys, column_map[i]),
              LAMBDA f : MapFrom(f, src, keys, column_map, i + 1))

map_columns(src, column_map) ==
    MapFrom(NewFrame(template_columns), src, CleanKeys(src), column_map, 1)

(***************************************************************************)
(* Value Normalizer: numbers                                               *)
(***************************************************************************)
numeric_cols ==
    << "INVOICE VALUE", "TAXABLE VALUE", "INTEGRATED TAX", "CENTRAL TAX",
       "STATE/UT TAX" >>

AllDigits(s) == \A i \in DOMAIN s : IsDigit(s[i])
RECURSIVE DigitsValue(_)
DigitsValue(s) ==
    IF s = <<>> THEN 0
    ELSE 10 * DigitsValue(SubSeq(s, 1, Len(s) - 1)) + DigitVal(s[Len(s)])

CountOf(s, c) == Cardinality({ i \in DOMAIN s : s[i] = c })
DropChar(s, c) == SelectSeq(s, LAMBDA x : x # c)

\* an unsigned decimal literal: digits with at most one point and at least
\* one digit
IsDecimal(s) ==
    /\ CountOf(s, ".") <= 1
    /\ DropChar(s, ".") # <<>>
    /\ AllDigits(DropChar(s, "."))
FracLen(s) ==
    IF CountOf(s, ".") = 0 THEN 0 ELSE Len(s) - IndexOf(".", s)

\* pd.to_numeric(..., errors='coerce') on one cell: the number a decimal
\* text stands for, NaN for a missing cell and for any other text
ToNumeric(c) ==
    IF c.t = "num" THEN c
    ELSE IF c.t = "nan" THEN NaN
    ELSE LET s == Strip(c.s)
             neg == s # <<>> /\ Head(s) = "-"
             body == IF s # <<>> /\ Head(s) \in {"-", "+"} THEN Tail(s) ELSE s
         IN  IF IsDecimal(body)
             THEN NumCell((IF neg THEN -1 ELSE 1) * DigitsValue(DropChar(body, ".")),
                          FracLen(body))
             ELSE NaN

\* the coerced column without the fill
WithoutFill(c) == c

\* Series.fillna(0)
FillNa0(c) == IF c.t = "nan" THEN NumCell(0, 0) ELSE c

\* lines 87-90: the numeric columns of the frame, coerced and zero-filled
RECURSIVE NormalizeNumeric(_, _)
NormalizeNumeric(frame, i) ==
    IF i > Len(numeric_cols) THEN frame
    ELSE LET col == numeric_cols[i]
         IN  Then(IF Contains(frame.columns, col)
                  THEN PutColumn(frame, col,
                           [r \in 1..frame.n |->
                               FillNa0(ToNumeric(frame.data[col][r]))])
                  ELSE frame,
                  LAMBDA f : NormalizeNumeric(f, i + 1))

(***************************************************************************)
(* Value Normalizer: dates                                                 *)
(***************************************************************************)
\* calendar arithmetic of pandas' Timestamp / Timedelta (proleptic Gregorian)
IsLeap(y) == (y % 4 = 0 /\ y % 100 # 0) \/ y % 400 = 0
DaysInMonth(y, m) ==
    IF m = 2 THEN (IF IsLeap(y) THEN 29 ELSE 28)
    ELSE IF m \in {4, 6, 9, 11} THEN 30 ELSE 31
ValidDate(y, m, d) == m \in 1..12 /\ d >= 1 /\ d <= DaysInMonth(y, m)

\* days from 0000-03-01 to the date
DaysFromCivil(y, m, d) ==
    LET yy == IF m <= 2 THEN y - 1 ELSE y
        era == yy \div 400
        yoe == yy - era * 400
        mp == IF m > 2 THEN m - 3 ELSE m + 9
        doy == (153 * mp + 2) \div 5 + d - 1
        doe == yoe * 365 + yoe \div 4 - yoe \div 100 + doy
    IN  era * 146097 + doe
CivilFromDays(z) ==
    LET era == z \div 146097
        doe == z - era * 146097
        yoe == (doe - doe \div 1460 + doe \div 36524 - doe \div 146096) \div 365
        doy == doe - (365 * yoe + yoe \div 4 - yoe \div 100)
        mp == (5 * doy + 2) \div 153
        d == doy - (153 * mp + 2) \div 5 + 1
        m == IF mp < 10 THEN mp + 3 ELSE mp - 9
    IN  [y |-> yoe + era * 400 + (IF m <= 2 THEN 1 ELSE 0), m |-> m, d |-> d]

\* the dates a Timestamp holds at midnight: 1677-09-22 .. 2262-04-11
InTimestampRange(y, m, d) ==
    /\ DaysFromCivil(y, m, d) >= DaysFromCivil(1677, 9, 22)
    /\ DaysFromCivil(y, m, d) <= DaysFromCivil(2262, 4, 11)

\* the largest whole number of days a Timedelta holds (2^63 ns)
MaxTimedeltaDays == 106751

NoDate == [ok |-> FALSE, y |-> 0, m |-> 0, d |-> 0]
ADate(y, m, d) == [ok |-> TRUE, y |-> y, m |-> m, d |-> d]
\* a Timestamp of the date, when the date exists and a Timestamp holds it
CheckedDate(y, m, d) ==
    IF ValidDate(y, m, d) /\ InTimestampRange(y, m, d) THEN ADate(y, m, d)
    ELSE NoDate

\* strftime("%d-%m-%Y")
Pad2(n) == << DigitChars[((n \div 10) % 10) + 1], DigitChars[(n % 10) + 1] >>
Pad4(n) == Pad2(n \div 100) \o Pad2(n % 100)
Strftime(dt) == Pad2(dt.d) \o <<"-">> \o Pad2(dt.m) \o <<"-">> \o Pad4(dt.y)

\* str.split(sep): the pieces between the occurrences of the character
RECURSIVE Split(_, _)
Split(s, sep) ==
    IF ~Contains(s, sep) THEN << s >>
    ELSE LET i == CHOOSE k \in DOMAIN s :
                     s[k] = sep /\ \A j \in 1..(k - 1) : s[j] # sep
         IN  << SubSeq(s, 1, i - 1) >> \o Split(SubSeq(s, i + 1, Len(s)), sep)

\* line 97: str(val).strip().split(" ")[0]
FirstToken(s) == Split(Strip(s), " ")[1]

\* line 100: val_str.replace(".", "").isdigit()
LooksLikeSerial(s) == DropChar(s, ".") # <<>> /\ AllDigits(DropChar(s, "."))

\* int(float(val_str)) for a text of digits and points: float() takes at
\* most one point, int() drops the fraction
IntOfFloat(s) == DigitsValue(Split(s, ".")[1])

\* the serial counted from 1900-01-01
SerialDateFrom1900(s) ==
    IF IsDecimal(s) /\ IntOfFloat(s) <= MaxTimedeltaDays
    THEN LET c == CivilFromDays(DaysFromCivil(1900, 1, 1) + IntOfFloat(s))
         IN  ADate(c.y, c.m, c.d)
    ELSE NoDate

\* Case 1, lines 101-106: the date serial counted from 1899-12-30; float()
\* raises on a second point, to_timedelta on more days than a Timedelta holds
SerialDate(s) ==
    IF IsDecimal(s) /\ IntOfFloat(s) <= MaxTimedeltaDays
    THEN LET c == CivilFromDays(DaysFromCivil(1899, 12, 30) + IntOfFloat(s))
         IN  ADate(c.y, c.m, c.d)
    ELSE NoDate

\* the directives of the explicit formats
MonthAbbr == << <<"J","A","N">>, <<"F","E","B">>, <<"M","A","R">>, <<"A","P","R">>,
                <<"M","A","Y">>, <<"J","U","N">>, <<"J","U","L">>, <<"A","U","G">>,
                <<"S","E","P">>, <<"O","C","T">>, <<"N","O","V">>, <<"D","E","C">> >>
IsNum12(p) == Len(p) \in {1, 2} /\ AllDigits(p)
FieldD(p) == IF IsNum12(p) /\ DigitsValue(p) \in 1..31 THEN DigitsValue(p) ELSE 0
FieldM(p) == IF IsNum12(p) /\ DigitsValue(p) \in 1..12 THEN DigitsValue(p) ELSE 0
FieldB(p) == IF Contains(MonthAbbr, Upper(p)) THEN IndexOf(Upper(p), MonthAbbr) ELSE 0
FieldY4(p) == IF Len(p) = 4 /\ AllDigits(p) THEN DigitsValue(p) ELSE -1
\* %y: 00-68 are 2000-2068, 69-99 are 1969-1999
FieldY2(p) ==
    IF Len(p) = 2 /\ AllDigits(p)
    THEN (IF DigitsValue(p) <= 68 THEN 2000 + DigitsValue(p) ELSE 1900 + DigitsValue(p))
    ELSE -1

\* line 109: the explicit formats, in the order they are tried
date_formats ==
    << [sep |-> "-", order |-> "dmy", month |-> "m", year |-> "Y"],   \* %d-%m-%Y
       [sep |-> "/", order |-> "dmy", month |-> "m", year |-> "Y"],   \* %d/%m/%Y
       [sep |-> "-", order |-> "dmy", month |-> "b", year |-> "Y"],   \* %d-%b-%Y
       [sep |-> "-", order |-> "dmy", month |-> "b", year |-> "y"],   \* %d-%b-%y
       [sep |-> "-", order |-> "ymd", month |-> "m", year |-> "Y"],   \* %Y-%m-%d
       [sep |-> "/", order |-> "ymd", month |-> "m", year |-> "Y"] >> \* %Y/%m/%d

\* line 111: pd.to_datetime(val_str, format=fmt, errors="raise"): the whole
\* text must match the format and be a date a Timestamp holds
Strptime(s, fmt) ==
    LET p == Split(s, fmt.sep)
    IN  IF Len(p) # 3 THEN NoDate
        ELSE LET pd == IF fmt.order = "dmy" THEN p[1] ELSE p[3]
                 py == IF fmt.order = "dmy" THEN p[3] ELSE p[1]
                 d == FieldD(pd)
                 m == IF fmt.month = "m" THEN FieldM(p[2]) ELSE FieldB(p[2])
                 y == IF fmt.year = "Y" THEN FieldY4(py) ELSE FieldY2(py)
             IN  IF d = 0 \/ m = 0 \/ y < 0 THEN NoDate ELSE CheckedDate(y, m, d)

\* Case 2, lines 109-114: the first format that parses
RECURSIVE TryFormats(_, _)
TryFormats(s, i) ==
    IF i > Len(date_formats) THEN NoDate
    ELSE IF Strptime(s, date_formats[i]).ok THEN Strptime(s, date_formats[i])
    ELSE TryFormats(s, i + 1)

\* Case 3, line 118: pd.to_datetime(val_str, errors="coerce", dayfirst=True)
\* on a text of three numbers with the year last, joined by "-", "/" or ".":
\* day before month when that is a date, else month before day; NaT otherwise
AutoSeps == {"-", "/", "."}
AutoParseWith(s, sep) ==
    LET p == Split(s, sep)
    IN  IF Len(p) # 3 THEN NoDate
        ELSE IF ~(IsNum12(p[1]) /\ IsNum12(p[2]) /\ FieldY4(p[3]) >= 0) THEN NoDate
        ELSE LET a == DigitsValue(p[1])
                 b == DigitsValue(p[2])
                 y == FieldY4(p[3])
             IN  IF (a > 12 \/ b <= 12) THEN CheckedDate(y, b, a)
                 ELSE CheckedDate(y, a, b)
AutoParse(s) ==
    IF \E sep \in AutoSeps : AutoParseWith(s, sep).ok
    THEN AutoParseWith(s, CHOOSE sep \in AutoSeps : AutoParseWith(s, sep).ok)
    ELSE NoDate

\* lines 94-120
normalize_date(c) ==
    IF c.t = "nan" \/ (c.t = "str" /\ Strip(c.s) = <<>>) THEN EmptyText
    ELSE LET val_str == FirstToken(c.s)
         IN  IF LooksLikeSerial(val_str) /\ SerialDate(val_str).ok
             THEN Strftime(SerialDate(val_str))
             ELSE IF TryFormats(val_str, 1).ok
             THEN Strftime(TryFormats(val_str, 1))
             ELSE IF AutoParse(val_str).ok
             THEN Strftime(AutoParse(val_str))   \* NaT.strftime raises: line 119
             ELSE EmptyText

\* line 122: the INVOICE DATE column, cell by cell
NormalizeDates(frame) ==
    IF Contains(frame.columns, "INVOICE DATE")
    THEN PutColumn(frame, "INVOICE DATE",
             [r \in 1..frame.n |->
                 StrCell(normalize_date(frame.data["INVOICE DATE"][r]))])
    ELSE frame

preprocess_df(frame) == NormalizeDates(NormalizeNumeric(frame, 1))

(***************************************************************************)
(* The inputs of a run: the uploads, and the Source Tables pd.read_excel   *)
(* returns (dtype=str: every cell is a text, a blank cell is NaN).         *)
(***************************************************************************)
MaxSheets == 2      \* sheets selected in one run, both files together
MaxRows == 2        \* rows of one sheet

None == [fmt |-> "none"]
\* lines 130-131: the uploaders accept workbooks ("xlsx", "xls") and
\* comma-separated files ("csv")
UploadTypes == {"excel", "csv"}
Uploads == {None} \cup { [fmt |-> f] : f \in UploadTypes }
IsUploaded(file) == file # None

\* sheets of a Books workbook: the header labels and, per column, the cells
\* the rows take in turn
books_layouts ==
    << [headers |-> << <<"F","o","o">>,
                     <<"I","n","v","o","i","c","e","_","N","u","m","b","e","r">> >>,
        cells |-> << << StrCell(<<"a","b","c">>) >>,
                   << StrCell(<<"I","N","V","0","0","1">>) >> >>],
       [headers |-> << <<"G","S","T","I","N">>,
                     <<"C","u","s","t","o","m","e","r"," ","N","a","m","e">>,
                     <<"B","i","l","l"," ","N","o">>,
                     <<"B","i","l","l"," ","D","a","t","e">>,
                     <<"T","o","t","a","l"," ","A","m","o","u","n","t">> >>,
        cells |-> << << StrCell(<<"2","9","A","B","C","D","E","1","2","3","4","F","1","Z","5">>), NaN >>,
                   << StrCell(<<"A","c","m","e"," ","C","o">>), StrCell(<<"B","e","t","a">>) >>,
                   << StrCell(<<"I","N","V","0","0","1">>), StrCell(<<"I","N","V","0","0","2">>) >>,
                   << StrCell(<<"0","1","-","0","2","-","2","0","2","4">>), StrCell(<<"4","5","0","0","0">>) >>,
                   << StrCell(<<"1","1","8","0">>), StrCell(<<"1",",","2","3","4">>), NaN >> >>],
       [headers |-> << <<"I","G","S","T"," ","R","a","t","e">>,
                     <<"C","u","s","t","o","m","e","r"," ","G","S","T","I","N">>,
                     <<" "," ","o","r","i","g","i","n","a","l"," ","c","u","s","t","o","m","e","r"," "," ","b","i","l","l","i","n","g","-","g","s","t","i","n"," ">>,
                     <<"I","G","S","T"," ","A","m","o","u","n","t">> >>,
        cells |-> << << StrCell(<<"1","8">>) >>,
                   << StrCell(<<"2","7","A","A","A">>) >>,
                   << StrCell(<<"2","9","B","B","B">>), StrCell(<<"0","7","C","C","C">>) >>,
                   << StrCell(<<"1","2",".","5">>), StrCell(<<"1","0","0",".","5","0">>) >> >>],
       [headers |-> << <<"T","a","x","a","b","l","e"," ","A","m","o","u","n","t">>,
                     <<"i","r","n"," ","n","u","m","b","e","r">> >>,
        cells |-> << << StrCell(<<"a","b","c">>), StrCell(<<"-","3">>), StrCell(<<"2","5","0">>) >>,
                   << StrCell(<<"I","R","N","9">>) >> >>] >>

\* sheets of a GST portal workbook
gst_layouts ==
    << [headers |-> << <<"S","r"," ","N","o">> >>,
        cells |-> << << StrCell(<<"1","8">>) >> >>],
       [headers |-> << <<"I","n","v","o","i","c","e"," ","n","u","m","b","e","r">>,
                     <<"I","n","v","o","i","c","e"," ","d","a","t","e">>,
                     <<"I","n","v","o","i","c","e"," ","V","a","l","u","e">>,
                     <<"T","a","x","a","b","l","e"," ","V","a","l","u","e">> >>,
        cells |-> << << StrCell(<<"N","1">>), StrCell(<<"N","2">>) >>,
                   << StrCell(<<"0","5","/","0","1","/","2","0","2","4">>), NaN, StrCell(<<"a","b","c">>) >>,
                   << StrCell(<<"1","1","8","0">>), StrCell(<<"1",",","2","3","4">>) >>,
                   << StrCell(<<"1","2",".","5">>), StrCell(<<>>) >> >>],
       [headers |-> << <<"N","o","t","e"," ","N","u","m","b","e","r">>,
                     <<"I","N","V","O","I","C","E"," "," ","N","U","M","B","E","R">>,
                     <<"P","l","a","c","e"," ","o","f"," ","S","u","p","p","l","y">> >>,
        cells |-> << << StrCell(<<"N","1">>) >>,
                   << StrCell(<<"I","N","V","0","0","1">>), StrCell(<<"I","N","V","0","0","2">>) >>,
                   << StrCell(<<"K","a","r","n","a","t","a","k","a">>) >> >>],
       [headers |-> << <<"I","n","v","o","i","c","e"," ","V","a","l","u","e">>,
                     <<"i","n","v","o","i","c","e"," ","v","a","l","u","e",".">> >>,
        cells |-> << << StrCell(<<"2","5","0">>) >>,
                   << StrCell(<<"1","0","0",".","5","0">>), StrCell(<<"a","b","c">>) >> >>] >>

SourceTable(layout, n) ==
    [columns |-> layout.headers, n |-> n,
     data |-> [c \in DOMAIN layout.headers |->
                  [r \in 1..n |->
                      layout.cells[c][((r - 1) % Len(layout.cells[c])) + 1]]]]
SourceTables(k) ==
    { SourceTable(l, n) :
        l \in Range(IF k = "books" THEN books_layouts ELSE gst_layouts),
        n \in 0..MaxRows }

(***************************************************************************)
(* The script body, lines 139-191: one run from the uploads to the         *)
(* download.  pc is the statement the run is at; kind is the section.      *)
(***************************************************************************)
Undefined == [undefined |-> TRUE]
NoDownload == [type |-> "none", file_name |-> "", members |-> <<>>]

fn_vars == << h1, h2, key1, key2, val, date_out >>
FnIdle ==
    /\ h1 = <<>> /\ h2 = <<>> /\ key1 = <<>> /\ key2 = <<>>
    /\ val = NaN /\ date_out = <<>>

Init ==
    /\ pc = "start"
    /\ books_file \in Uploads
    /\ gst_file \in Uploads
    /\ kind = "none"
    /\ todo = 0
    /\ df = Undefined
    /\ mapped_df = Undefined
    /\ combined_books_df = Undefined
    /\ combined_gst_df = Undefined
    /\ src_rows = [books |-> <<>>, gst |-> <<>>]
    /\ download = NoDownload
    /\ error = "none"
    /\ FnIdle

FileOf(k) == IF k = "books" THEN books_file ELSE gst_file
ColumnMapOf(k) == IF k = "books" THEN books_column_map ELSE gst_column_map
CombinedOf(k) == IF k = "books" THEN combined_books_df ELSE combined_gst_df
SheetsSoFar == Len(src_rows.books) + Len(src_rows.gst)

\* an exception caught around the section: the run goes on to the export
SkipSection(reason) ==
    /\ pc' = "export"
    /\ error' = reason
    /\ UNCHANGED << books_file, gst_file, kind, todo, df, mapped_df,
                    combined_books_df, combined_gst_df, src_rows, download, fn_vars >>

\* an exception nothing catches ends the run where it is raised
Abort(reason) ==
    /\ pc' = "aborted"
    /\ error' = reason
    /\ UNCHANGED << books_file, gst_file, kind, todo, df, mapped_df,
                    combined_books_df, combined_gst_df, src_rows, download, fn_vars >>

\* the section that follows section k, or the export
AfterSection(k) ==
    IF k = "books" /\ IsUploaded(gst_file)
    THEN pc' = "open" /\ kind' = "gst"
    ELSE pc' = "export" /\ kind' = "none"

\* line 139, 142, 155
Start ==
    /\ pc = "start"
    /\ IF IsUploaded(books_file) THEN pc' = "open" /\ kind' = "books"
       ELSE IF IsUploaded(gst_file) THEN pc' = "open" /\ kind' = "gst"
       ELSE pc' = "done" /\ kind' = "none"
    /\ UNCHANGED << books_file, gst_file, todo, df, mapped_df, combined_books_df,
                    combined_gst_df, src_rows, download, error, fn_vars >>

\* pd.ExcelFile(file): a workbook reader; a comma-separated file is no workbook
ExcelFileOpens(file) == file.fmt = "excel"

\* lines 143-147 / 156-160: open the workbook, take the selection, start the
\* combined table
Open(k) ==
    /\ pc = "open" /\ kind = k
    /\ IF ~ExcelFileOpens(FileOf(k))
       THEN Abort("format")
       ELSE \/ Abort("unreadable")
            \/ \E sel \in 0..(MaxSheets - SheetsSoFar) :
                 /\ todo' = sel
                 /\ IF k = "books"
                    THEN /\ combined_books_df' = NewFrame(template_columns)
                         /\ UNCHANGED combined_gst_df
                    ELSE /\ combined_gst_df' = NewFrame(template_columns)
                         /\ UNCHANGED combined_books_df
                 /\ pc' = "read"
                 /\ UNCHANGED << books_file, gst_file, kind, df, mapped_df,
                                 src_rows, download, error, fn_vars >>

\* lines 148-149 / 161-162: the next selected sheet is read, or the loop ends
Read(k) ==
    /\ pc = "read" /\ kind = k
    /\ IF todo = 0
       THEN /\ AfterSection(k)
            /\ UNCHANGED << books_file, gst_file, todo, df, mapped_df,
                            combined_books_df, combined_gst_df, src_rows,
                            download, error, fn_vars >>
       ELSE \/ Abort("unreadable")
            \/ \E table \in SourceTables(k) :
                 /\ df' = table
                 /\ todo' = todo - 1
                 /\ src_rows' = [src_rows EXCEPT ![k] = Append(@, table.n)]
                 /\ pc' = "map"
                 /\ UNCHANGED << books_file, gst_file, kind, mapped_df,
                                 combined_books_df, combined_gst_df, download,
                                 error, fn_vars >>

\* line 150 / 163
Map(k) ==
    /\ pc = "map" /\ kind = k
    /\ mapped_df' = map_columns(df, ColumnMapOf(k))
    /\ pc' = "prep"
    /\ UNCHANGED << books_file, gst_file, kind, todo, df, combined_books_df,
                    combined_gst_df, src_rows, download, error, fn_vars >>

\* line 151 / 164
Preprocess(k) ==
    /\ pc = "prep" /\ kind = k
    /\ mapped_df' = preprocess_df(mapped_df)
    /\ pc' = "concat"
    /\ UNCHANGED << books_file, gst_file, kind, todo, df, combined_books_df,
                    combined_gst_df, src_rows, download, error, fn_vars >>

\* pd.concat([a, b], ignore_index=True): the columns of a, then those only b
\* has; the rows of a, then the rows of b
Concat(a, b) ==
    LET cols == a.columns \o SelectSeq(b.columns, LAMBDA c : ~Contains(a.columns, c))
    IN  [columns |-> cols, n |-> a.n + b.n,
         data |-> [c \in Range(cols) |->
                     (IF Contains(a.columns, c) THEN a.data[c] ELSE Repeat(NaN, a.n))
                     \o (IF Contains(b.columns, c) THEN b.data[c] ELSE Repeat(NaN, b.n))]]

\* line 152 / 165
Combine(k) ==
    /\ pc = "concat" /\ kind = k
    /\ IF k = "books"
       THEN /\ combined_books_df' = Concat(combined_books_df, mapped_df)
            /\ UNCHANGED combined_gst_df
       ELSE /\ combined_gst_df' = Concat(combined_gst_df, mapped_df)
            /\ UNCHANGED combined_books_df
    /\ pc' = "read"
    /\ UNCHANGED << books_file, gst_file, kind, todo, df, mapped_df, src_rows,
                    download, error, fn_vars >>

\* an export that looks at the upload only, not at the table
HasUpload(k) == IsUploaded(FileOf(k))

\* DataFrame.empty: no row, or no column
IsEmpty(frame) == frame.n = 0 \/ frame.columns = <<>>
HasOutput(k) == IsUploaded(FileOf(k)) /\ ~IsEmpty(CombinedOf(k))

BooksMember ==
    [name |-> "Books_AutoFilled_Template.xlsx", sheet_name |-> "Books_Template",
     rows |-> combined_books_df.n]
GstMember ==
    [name |-> "GST_AutoFilled_Combined_Template.xlsx",
     sheet_name |-> "GST_Combined_Template", rows |-> combined_gst_df.n]

\* lines 168-191: the archive and its download button
Archive ==
    [type |-> "zip", file_name |-> "GST_Books_Templates.zip",
     members |-> (IF HasOutput("books") THEN << BooksMember >> ELSE <<>>)
                 \o (IF HasOutput("gst") THEN << GstMember >> ELSE <<>>)]

Export ==
    /\ pc = "export"
    /\ download' = IF HasOutput("books") \/ HasOutput("gst") THEN Archive
                   ELSE NoDownload
    /\ pc' = "done"
    /\ UNCHANGED << books_file, gst_file, kind, todo, df, mapped_df,
                    combined_books_df, combined_gst_df, src_rows, error, fn_vars >>

Sections == {"books", "gst"}
OpenStep == \E k \in Sections : Open(k)
ReadStep == \E k \in Sections : Read(k)
MapStep == \E k \in Sections : Map(k)
PreprocessStep == \E k \in Sections : Preprocess(k)
CombineStep == \E k \in Sections : Combine(k)

Next ==
    \/ Start
    \/ OpenStep
    \/ ReadStep
    \/ MapStep
    \/ PreprocessStep
    \/ CombineStep
    \/ Export

Spec == Init /\ [][Next]_vars

(***************************************************************************)
(* clean_column_name on its own: two header labels, each any text of       *)
(* bounded length over a small alphabet, and their keys.                   *)
(***************************************************************************)
MaxHeaderLen == 3
HeaderAlphabet == {"a", "A", "7", " ", "_", "-"}
HeaderTexts == UNION { [1..n -> HeaderAlphabet] : n \in 0..MaxHeaderLen }

run_vars == << books_file, gst_file, kind, todo, df, mapped_df,
               combined_books_df, combined_gst_df, src_rows, download, error >>
RunIdle ==
    /\ books_file = None /\ gst_file = None /\ kind = "none" /\ todo = 0
    /\ df = Undefined /\ mapped_df = Undefined
    /\ combined_books_df = Undefined /\ combined_gst_df = Undefined
    /\ src_rows = [books |-> <<>>, gst |-> <<>>]
    /\ download = NoDownload /\ error = "none"

InitClean ==
    /\ pc = "call"
    /\ RunIdle
    /\ h1 \in HeaderTexts /\ h2 \in HeaderTexts
    /\ key1 = <<>> /\ key2 = <<>>
    /\ val = NaN /\ date_out = <<>>

CleanCall ==
    /\ pc = "call"
    /\ key1' = clean_column_name(h1)
    /\ key2' = clean_column_name(h2)
    /\ pc' = "return"
    /\ UNCHANGED << run_vars, h1, h2, val, date_out >>

NextClean == CleanCall
SpecClean == InitClean /\ [][NextClean]_vars

(***************************************************************************)
(* normalize_date on its own: one INVOICE DATE cell and the result.        *)
(***************************************************************************)
DayTexts == { <<"1">>, <<"0","5">>, <<"1","3">>, <<"2","9">>, <<"3","1">> }
MonthTexts == { <<"0","1">>, <<"2">>, <<"1","2">>, <<"1","3">> }
YearTexts == { <<"2","0","2","3">>, <<"2","0","2","4">>, <<"1","6","0","0">> }
\* day, month, year joined by one separator
DayFirstTexts ==
    { d \o <<sep>> \o m \o <<sep>> \o y :
        d \in DayTexts, m \in MonthTexts, y \in YearTexts, sep \in AutoSeps }
\* year, month, day, zero-padded
YearFirstTexts ==
    { y \o <<sep>> \o m \o <<sep>> \o d :
        y \in YearTexts, m \in { <<"0","1">>, <<"1","2">> },
        d \in { <<"0","5">>, <<"1","3">>, <<"3","1">> }, sep \in {"-", "/"} }
MonthNameTexts ==
    { <<"0","5","-","J","a","n","-","2","0","2","4">>,
      <<"5","-","j","a","n","-","2","4">>,
      <<"0","5","-","J","A","N","-","6","9">>,
      <<"3","1","-","F","e","b","-","2","0","2","4">>,
      <<"0","5","-","F","o","o","-","2","0","2","4">> }
SerialTexts ==
    { <<"0">>,
      <<"1">>,
      <<"6","0">>,
      <<"2","0","2","4">>,
      <<"4","5","0","0","0">>,
      <<"4","5","0","0","0",".","7">>,
      <<"1","0","6","7","5","1">>,
      <<"1","0","6","7","5","2">> }
OtherTexts ==
    { <<>>, <<" "," "," ">>,
      <<"a","b","c">>,
      <<"N","/","A">>,
      <<" ","4","5","0","0","0"," ">>,
      <<"0","5","/","0","1","/","2","0","2","4"," ","1","0",":","3","0",":","0","0">>,
      <<"0","1","-","0","2","-","2","0","2","4">> }
DateCells ==
    {NaN} \cup { StrCell(t) : t \in DayFirstTexts \cup YearFirstTexts
                                  \cup MonthNameTexts \cup SerialTexts \cup OtherTexts }

InitDate ==
    /\ pc = "call"
    /\ RunIdle
    /\ h1 = <<>> /\ h2 = <<>> /\ key1 = <<>> /\ key2 = <<>>
    /\ val \in DateCells
    /\ date_out = <<>>

DateCall ==
    /\ pc = "call"
    /\ date_out' = normalize_date(val)
    /\ pc' = "return"
    /\ UNCHANGED << run_vars, h1, h2, key1, key2, val >>

NextDate == DateCall
SpecDate == InitDate /\ [][NextDate]_vars

(***************************************************************************)
(* Properties of the run (specification Spec)                              *)
(***************************************************************************)
IsBound(frame) == frame # Undefined
NoDuplicates(seq) == \A i, j \in DOMAIN seq : seq[i] = seq[j] => i = j

\* exactly the 12 canonical columns, in the order of template_columns
HasCanonicalColumns(frame) ==
    /\ Len(frame.columns) = 12
    /\ NoDuplicates(frame.columns)
    /\ \A i \in 1..12 : frame.columns[i] = template_columns[i]
    /\ DOMAIN frame.data = { template_columns[i] : i \in 1..12 }

\* C1: the Mapped Table map_columns returns, the table preprocess_df returns
\* and the Combined Table of either section, after any number of sheets,
\* hold exactly the 12 canonical columns in the canonical order.
Theorem_C1 ==
    /\ IsBound(mapped_df) => HasCanonicalColumns(mapped_df)
    /\ IsBound(combined_books_df) => HasCanonicalColumns(combined_books_df)
    /\ IsBound(combined_gst_df) => HasCanonicalColumns(combined_gst_df)

\* a sheet with rows that matches no alias has been mapped, normalised and
\* combined as the second sheet of its workbook
Witness_C1 ==
    /\ pc = "read" /\ kind = "books"
    /\ Len(src_rows.books) = 2
    /\ df.n > 0
    /\ \A i \in DOMAIN books_column_map :
          \A j \in DOMAIN books_column_map[i].aliases :
             \A c \in DOMAIN df.columns :
                clean_column_name(df.columns[c])
                    # clean_column_name(books_column_map[i].aliases[j])
    /\ HasCanonicalColumns(mapped_df)
    /\ HasCanonicalColumns(combined_books_df)

\* the keys of the header labels of a Source Table
SourceKeys(src) == { clean_column_name(src.columns[c]) : c \in DOMAIN src.columns }
\* the aliases of an item of an alias table that the Source Table has a column for
Hits(item, src) ==
    LET keys == SourceKeys(src)
    IN  { j \in DOMAIN item.keys : item.keys[j] \in keys }

\* C2 (as claimed): in the Mapped Table of a Source Table with n rows, the
\* column of every canonical field none of whose aliases matches a source
\* column has exactly n entries, each the empty string.
Claim_C2 ==
    pc = "prep" =>
        \A i \in DOMAIN ColumnMapOf(kind) :
            LET item == ColumnMapOf(kind)[i]
            IN  Hits(item, df) = {} =>
                    /\ Len(mapped_df.data[item.field]) = df.n
                    /\ \A r \in 1..Len(mapped_df.data[item.field]) :
                          mapped_df.data[item.field][r] = StrCell(EmptyText)

\* C3: the column of a canonical field that has a matching alias is, row by
\* row, a source column whose key is the key of the earliest such alias in
\* the field's alias list.
Theorem_C3 ==
    pc = "prep" =>
        \A i \in DOMAIN ColumnMapOf(kind) :
            LET item == ColumnMapOf(kind)[i]
                hits == Hits(item, df)
            IN  hits # {} =>
                    LET first == CHOOSE j \in hits : \A k \in hits : j <= k
                    IN  \E c \in DOMAIN df.columns :
                           /\ clean_column_name(df.columns[c]) = item.keys[first]
                           /\ mapped_df.data[item.field] = df.data[c]

\* a sheet of two rows or more holds a column for the first alias of a field
\* and, before it in the sheet, a column for a later alias of the same field
Witness_C3 ==
    /\ pc = "prep"
    /\ df.n >= 2
    /\ \E i \in DOMAIN ColumnMapOf(kind) :
          LET item == ColumnMapOf(kind)[i]
          IN  \E c1, c2 \in DOMAIN df.columns :
                 /\ c2 < c1
                 /\ clean_column_name(df.columns[c1]) = item.keys[1]
                 /\ \E j \in DOMAIN item.aliases :
                       /\ j > 1
                       /\ clean_column_name(df.columns[c2]) = item.keys[j]
                       /\ item.keys[j] # item.keys[1]
                 /\ df.data[c1] # df.data[c2]
                 /\ mapped_df.data[item.field] = df.data[c1]

Zero == [t |-> "num", s |-> <<>>, n |-> 0, e |-> 0]
FiveNumericFields ==
    { "INVOICE VALUE", "TAXABLE VALUE", "INTEGRATED TAX", "CENTRAL TAX",
      "STATE/UT TAX" }
\* a text that no number is written as: blank, or holding a character that
\* is no digit, point, sign or whitespace
NotANumber(text) ==
    \/ Strip(text) = <<>>
    \/ \E i \in DOMAIN text :
          ~(IsDigit(text[i]) \/ IsSpace(text[i]) \/ text[i] \in {".", "-", "+"})
\* what the value normalizer makes of a source cell
NumberOf(src, out) ==
    /\ out.t = "num"
    /\ src.t = "nan" => out = Zero
    /\ (src.t = "str" /\ NotANumber(src.s)) => out = Zero
    /\ (src.t = "str" /\ src.s # <<>> /\ AllDigits(src.s)) =>
          (out.n = DigitsValue(src.s) /\ out.e = 0)
    /\ src = StrCell(<<"1","2",".","5">>) => (out.n = 125 /\ out.e = 1)
    /\ src = StrCell(<<"-","3">>) => (out.n = -3 /\ out.e = 0)
    /\ src = StrCell(<<"1",",","2","3","4">>) => out = Zero

\* C5: after preprocess_df every cell of each of the five numeric fields is a
\* number: the number its source text stands for, and zero for a blank or
\* missing cell, for a text that is no number and for the fill of a field no
\* alias matched; the five fields are treated alike.
Theorem_C5 ==
    pc = "concat" =>
        \A i \in DOMAIN ColumnMapOf(kind) :
            LET item == ColumnMapOf(kind)[i]
                hits == Hits(item, df)
                col == mapped_df.data[item.field]
            IN  item.field \in FiveNumericFields =>
                    /\ Len(col) = mapped_df.n
                    /\ \A r \in 1..Len(col) : col[r].t = "num"
                    /\ hits = {} => \A r \in 1..Len(col) : col[r] = Zero
                    /\ hits # {} =>
                          LET first == CHOOSE j \in hits : \A k \in hits : j <= k
                          IN  \E c \in DOMAIN df.columns :
                                 /\ clean_column_name(df.columns[c]) = item.keys[first]
                                 /\ Len(col) = df.n
                                 /\ \A r \in 1..df.n : NumberOf(df.data[c][r], col[r])

\* a table was normalised in which one numeric field holds a number and the
\* zero of a text with a separator, and another numeric field, which no alias
\* matched, holds zeros
Witness_C5 ==
    /\ pc = "concat"
    /\ mapped_df.n >= 2
    /\ \E c \in DOMAIN df.columns, r \in 1..df.n, f \in FiveNumericFields :
          /\ df.data[c][r] = StrCell(<<"1",",","2","3","4">>)
          /\ mapped_df.data[f][r] = Zero
          /\ \E q \in 1..df.n : mapped_df.data[f][q].n = 1180
    /\ \E i \in DOMAIN ColumnMapOf(kind) :
          /\ ColumnMapOf(kind)[i].field \in FiveNumericFields
          /\ Hits(ColumnMapOf(kind)[i], df) = {}
          /\ mapped_df.data[ColumnMapOf(kind)[i].field][1] = Zero

RECURSIVE SumSeq(_)
SumSeq(seq) == IF seq = <<>> THEN 0 ELSE Head(seq) + SumSeq(Tail(seq))

\* C7 (as claimed): the Combined Table has as many rows as the sheets read
\* into it have together, whether or not their headers match an alias.
Claim_C7 ==
    \A k \in Sections :
        (pc \in {"read", "export", "done"} /\ IsBound(CombinedOf(k))) =>
            CombinedOf(k).n = SumSeq(src_rows[k])

\* C8 (as claimed): with exactly one non-empty Combined Table the run offers
\* a standalone spreadsheet file, not an archive.
Claim_C8 ==
    (pc = "done" /\ (HasOutput("books") # HasOutput("gst"))) =>
        (download.type = "file" /\ download.members = <<>>)

NonEmpty(file, frame) == IsUploaded(file) /\ IsBound(frame) /\ frame.n > 0
MemberNames == { download.members[i].name : i \in DOMAIN download.members }

\* C8 (amended): no file is emitted for an empty Combined Table; a download
\* is offered exactly when a table is non-empty, and it is always the one
\* archive, holding one file per non-empty table: both files when both
\* tables are non-empty, the single file when exactly one is.
Theorem_C8 ==
    /\ pc # "done" => download = NoDownload
    /\ pc = "done" =>
          LET b == NonEmpty(books_file, combined_books_df)
              g == NonEmpty(gst_file, combined_gst_df)
          IN  /\ download.type \in {"none", "zip"}
              /\ download.type = "zip" <=> (b \/ g)
              /\ download.type = "none" => download.members = <<>>
              /\ Len(download.members) = (IF b THEN 1 ELSE 0) + (IF g THEN 1 ELSE 0)
              /\ ("Books_AutoFilled_Template.xlsx" \in MemberNames) <=> b
              /\ ("GST_AutoFilled_Combined_Template.xlsx" \in MemberNames) <=> g
              /\ \A i \in DOMAIN download.members : download.members[i].rows > 0
              /\ (b /\ g) => download.members[1].name = "Books_AutoFilled_Template.xlsx"

\* both files were uploaded, the Books table is empty and the GST table is
\* not: the archive holds the GST file alone
Witness_C8 ==
    /\ pc = "done"
    /\ IsUploaded(books_file) /\ IsUploaded(gst_file)
    /\ combined_books_df.n = 0 /\ combined_gst_df.n > 0
    /\ download.type = "zip"
    /\ Len(download.members) = 1
    /\ download.members[1].sheet_name = "GST_Combined_Template"

\* C9 (as claimed): whichever kind of file is uploaded, the run does not fail
\* in the read step on account of the file's kind: a run ends in the read
\* step only on an upload that cannot be read at all.
Claim_C9 == ~(pc = "aborted" /\ error = "format")

\* C10: once a read of the workbook or of a selected sheet has failed, the
\* run has ended without offering any download, whatever was combined before.
Theorem_C10 ==
    /\ error # "none" => (pc = "aborted" /\ download = NoDownload)
    /\ pc = "aborted" => (error # "none" /\ download = NoDownload)

\* the read of a selected GST sheet failed after the Books table was combined
\* with rows
Witness_C10 ==
    /\ pc = "aborted" /\ kind = "gst" /\ error = "unreadable"
    /\ IsBound(combined_books_df) /\ combined_books_df.n > 0
    /\ IsBound(combined_gst_df) /\ todo > 0
    /\ download = NoDownload

(***************************************************************************)
(* Properties of clean_column_name (specification SpecClean)               *)
(***************************************************************************)
\* what is left of a label when only its letters and digits count, whatever
\* their case
IsAlnum(c) == IsLower(c) \/ IsUpper(c) \/ IsDigit(c)
Skeleton(h) == Upper(SelectSeq(h, IsAlnum))

\* C4 (as claimed): two labels that differ only by letter case, by
\* whitespace or by characters that are no letter and no digit, the
\* underscore included, have the same key, and a key holds only uppercase
\* letters and digits.
Claim_C4 ==
    pc = "return" =>
        /\ Skeleton(h1) = Skeleton(h2) => key1 = key2
        /\ \A i \in DOMAIN key1 : IsUpper(key1[i]) \/ IsDigit(key1[i])

(***************************************************************************)
(* Properties of normalize_date (specification SpecDate)                   *)
(***************************************************************************)
\* a zero-padded DD-MM-YYYY text of a calendar date
DateShape(text) ==
    /\ Len(text) = 10
    /\ text[3] = "-" /\ text[6] = "-"
    /\ \A i \in {1, 2, 4, 5, 7, 8, 9, 10} : IsDigit(text[i])
    /\ ValidDate(DigitsValue(SubSeq(text, 7, 10)), DigitsValue(SubSeq(text, 4, 5)),
                 DigitsValue(SubSeq(text, 1, 2)))
\* the day number of a DD-MM-YYYY text
DayNumber(text) ==
    DaysFromCivil(DigitsValue(SubSeq(text, 7, 10)), DigitsValue(SubSeq(text, 4, 5)),
                  DigitsValue(SubSeq(text, 1, 2)))
DayMonthYear(d, m, y) == Pad2(d) \o <<"-">> \o Pad2(m) \o <<"-">> \o Pad4(y)
\* a date that exists and that a Timestamp holds
IsDate(d, m, y) == ValidDate(y, m, d) /\ InTimestampRange(y, m, d)

\* C6: normalize_date returns the empty text or a zero-padded DD-MM-YYYY
\* date, the empty text for a blank cell and for a cell no strategy parses;
\* a first token of digits is a serial counted from 1899-12-30, before any
\* pattern is tried; a day-month-year text is read by the explicit patterns
\* day first, and by the permissive parse day first where that is a date and
\* month first otherwise.
Theorem_C6 ==
    pc = "return" =>
        /\ date_out = <<>> \/ DateShape(date_out)
        /\ (val.t = "nan" \/ Strip(val.s) = <<>>) => date_out = <<>>
        /\ val = StrCell(<<"0","5","/","0","1","/","2","0","2","4">>) => date_out = <<"0","5","-","0","1","-","2","0","2","4">>
        /\ val = StrCell(<<"4","5","0","0","0">>) => date_out = <<"1","5","-","0","3","-","2","0","2","3">>
        /\ val = StrCell(<<"4","5","0","0","0",".","7">>) => date_out = <<"1","5","-","0","3","-","2","0","2","3">>
        /\ val = StrCell(<<"0","5","/","0","1","/","2","0","2","4"," ","1","0",":","3","0",":","0","0">>) => date_out = <<"0","5","-","0","1","-","2","0","2","4">>
        /\ val = StrCell(<<"5","-","j","a","n","-","2","4">>) => date_out = <<"0","5","-","0","1","-","2","0","2","4">>
        /\ val = StrCell(<<"0","5","-","J","A","N","-","6","9">>) => date_out = <<"0","5","-","0","1","-","1","9","6","9">>
        /\ val.s \in { <<"a","b","c">>, <<"N","/","A">>, <<"0","5","-","F","o","o","-","2","0","2","4">>, <<"3","1","-","F","e","b","-","2","0","2","4">>, <<"1","0","6","7","5","2">> }
              => date_out = <<>>
        /\ (val.t = "str" /\ Strip(val.s) # <<>> /\ AllDigits(Strip(val.s))
                /\ DigitsValue(Strip(val.s)) <= 106751) =>
              /\ DateShape(date_out)
              /\ DayNumber(date_out) - DaysFromCivil(1899, 12, 30)
                     = DigitsValue(Strip(val.s))
        /\ \A a \in DayTexts, b \in MonthTexts, c \in YearTexts, sep \in AutoSeps :
              LET p == DigitsValue(a)
                  q == DigitsValue(b)
                  y == DigitsValue(c)
              IN  val.s = a \o <<sep>> \o b \o <<sep>> \o c =>
                     date_out = IF IsDate(p, q, y) THEN DayMonthYear(p, q, y)
                                ELSE IF IsDate(q, p, y) THEN DayMonthYear(q, p, y)
                                ELSE <<>>
        /\ \A a \in DayTexts, b \in MonthTexts, c \in YearTexts, sep \in {"-", "/"} :
              LET p == DigitsValue(a)
                  q == DigitsValue(b)
                  y == DigitsValue(c)
              IN  (val.s = c \o <<sep>> \o b \o <<sep>> \o a /\ IsDate(p, q, y)) =>
                     date_out = DayMonthYear(p, q, y)

\* the serial 45000 was normalised to the date 45000 days after 1899-12-30
Witness_C6 ==
    /\ pc = "return"
    /\ val = StrCell(<<"4","5","0","0","0">>)
    /\ date_out = <<"1","5","-","0","3","-","2","0","2","3">>
    /\ DayNumber(date_out) = DaysFromCivil(1899, 12, 30) + 45000
====
